---- MODULE Spec2Model ----
(***************************************************************************)
(* NileCare chatbot: the retrieval-augmented dialogue core                 *)
(* (src/chatbot/core.py), the language-model client                        *)
(* (src/chatbot/llm_interface.py), the knowledge-base loader               *)
(* (src/rag/vector_db.py) and the command-line loop (main.py).             *)
(*                                                                         *)
(* core.py names its client OllamaClient and its retriever Retriever; the   *)
(* client modelled is LLMInterface of llm_interface.py, whose               *)
(* generate_response has the signature core.py calls, and the retriever is *)
(* modelled from its contract: it queries the store, turns distances into  *)
(* similarities and keeps the hits at or above the threshold.              *)
(*                                                                         *)
(* A text is a sequence of one-character strings.  The fixed wording of a  *)
(* prompt template is one element of the sequence, holding the literal.    *)
(***************************************************************************)
EXTENDS Integers, Sequences, FiniteSets, TLC

(* ------------------------------ bounds -------------------------------- *)

\* Longest knowledge file enumerated by InitKB.
MaxFileLen == 8

\* Number of load_knowledge_base calls followed in SpecKB.
MaxLoads == 2

\* Number of process_message calls followed in Spec.
MaxTurns == 4

(* --------------------------- text helpers ----------------------------- *)

\* Characters a knowledge file is made of.
KBAlphabet == {"a", " ", "\n", "-"}

\* str.strip() with no argument removes these.
Whitespace == {" ", "\n"}

RECURSIVE LStrip(_)
LStrip(s) ==
    IF s = <<>> THEN <<>>
    ELSE IF Head(s) \in Whitespace THEN LStrip(Tail(s)) ELSE s

RECURSIVE RStrip(_)
RStrip(s) ==
    IF s = <<>> THEN <<>>
    ELSE IF s[Len(s)] \in Whitespace THEN RStrip(SubSeq(s, 1, Len(s) - 1)) ELSE s

\* str.strip()
Strip(s) == RStrip(LStrip(s))

\* s has the separator sep at position i.
HasAt(s, i, sep) ==
    /\ i >= 1
    /\ i + Len(sep) - 1 <= Len(s)
    /\ SubSeq(s, i, i + Len(sep) - 1) = sep

\* str.split(sep): left to right, non-overlapping, empty pieces kept.
RECURSIVE SplitFrom(_, _, _, _)
SplitFrom(s, sep, i, cur) ==
    IF i > Len(s) THEN <<cur>>
    ELSE IF HasAt(s, i, sep)
         THEN <<cur>> \o SplitFrom(s, sep, i + Len(sep), <<>>)
         ELSE SplitFrom(s, sep, i + 1, Append(cur, s[i]))

Split(s, sep) == SplitFrom(s, sep, 1, <<>>)

\* sep.join(parts)
RECURSIVE Join(_, _)
Join(parts, sep) ==
    IF parts = <<>> THEN <<>>
    ELSE IF Len(parts) = 1 THEN parts[1]
    ELSE parts[1] \o sep \o Join(Tail(parts), sep)

\* The record delimiter of a knowledge file, and the line separator.
Delimiter == <<"-", "-", "-">>
Newline == <<"\n">>

(* ----------------------- knowledge-base loader ------------------------ *)

\* documents = raw_text.strip().split("---")
documents(raw_text) == Split(Strip(raw_text), Delimiter)

\* The title of one record: the first line of the stripped record, stripped.
title(doc_text) ==
    LET lines == Split(Strip(doc_text), Newline)
    IN  IF lines # <<>> THEN Strip(lines[1]) ELSE <<"U", "n", "t", "i", "t", "l", "e", "d">>

\* The content of one record: the lines after the first, joined and stripped.
content(doc_text) ==
    LET lines == Split(Strip(doc_text), Newline)
    IN  Strip(Join(Tail(lines), Newline))

\* A record is stored when it is not blank and its content is not empty.
stored(doc_text) == Strip(doc_text) # <<>> /\ content(doc_text) # <<>>

\* The (content, title) pairs the loop over the records collects, in order.
RECURSIVE texts(_)
texts(docs) ==
    IF docs = <<>> THEN <<>>
    ELSE (IF stored(Head(docs))
          THEN <<[content |-> content(Head(docs)), title |-> title(Head(docs))]>>
          ELSE <<>>) \o texts(Tail(docs))

\* collection.add(documents=texts, metadatas=metadatas, ids=ids): every
\* collected pair is stored under a fresh identifier.
add(coll, new, first_id) ==
    coll \o [i \in 1..Len(new) |->
                [id |-> first_id + i - 1,
                 content |-> new[i].content,
                 metadata |-> [title |-> new[i].title]]]

\* Faulty variant: the collection is not cleared before the records are added.
clear_collection_skipped(coll) == coll

\* client.delete_collection followed by get_or_create_collection.
clear_collection(coll) == <<>>

\* VectorDB.load_knowledge_base: the collection after the call.  A missing
\* file is reported and the call returns with the collection untouched.
load_knowledge_base(coll, raw_text, exists, first_id) ==
    IF ~exists THEN coll
    ELSE add(clear_collection(coll), texts(documents(raw_text)), first_id)

(* ------------------------- vector store query ------------------------- *)

\* Distances the store reports, in tenths (lower is more similar).
DistLevels == {4, 8}

\* The arrangements of k distinct positions of a collection of n entries.
Rankings(n, k) ==
    {r \in [1..k -> 1..n] : \A i, j \in 1..k : i # j => r[i] # r[j]}

Min(a, b) == IF a <= b THEN a ELSE b

\* VectorDB.query: the n_results nearest entries, nearest first, each as
\* content, metadata and distance.  Which entries are near is decided by the
\* embedding model, so every ranking with ascending distances is possible.
query(coll, n_results) ==
    LET k == Min(n_results, Len(coll))
    IN  {[i \in 1..k |-> [content |-> coll[r[i]].content,
                          metadata |-> coll[r[i]].metadata,
                          distance |-> d[i]]] :
            r \in Rankings(Len(coll), k),
            d \in {e \in [1..k -> DistLevels] :
                     \A i \in 1..k : i < k => e[i] <= e[i + 1]}}

\* What one retrieval can meet: the store answers, or it cannot be reached.
StoreOutcomes(coll, n_results) ==
    {[failed |-> TRUE, hits |-> <<>>]} \cup
    {[failed |-> FALSE, hits |-> h] : h \in query(coll, n_results)}

\* Retriever.retrieve_info: similarity is 1 - distance; hits below
\* min_similarity are dropped, order kept; an unreachable or empty store
\* gives the empty result.
retrieve_info(outcome, min_similarity) ==
    IF outcome.failed THEN <<>>
    ELSE SelectSeq(outcome.hits, LAMBDA h : 10 - h.distance >= min_similarity)

\* process_message asks for n_results=3, min_similarity=0.4 (in tenths: 4).
NResults == 3
MinSimilarity == 4

(* -------------------------- prompt assembly --------------------------- *)

GroundedInstruction ==
    <<"You are a helpful and informative healthcare chatbot. Using *only* the following information from the knowledge base, answer the user's question concisely and accurately. If the question cannot be answered from the provided information, or if it requires personalized medical advice or diagnosis, state clearly that you don't have enough information to answer that question and strongly suggest consulting a qualified healthcare professional.\n\n">>

UngroundedInstruction ==
    <<"You are a helpful and informative chatbot. Please answer the user's question to the best of your ability. If the question is about a specific health condition or requires a diagnosis, you must add a disclaimer stating that the information is from your general knowledge and that the user should consult a qualified healthcare professional for an accurate diagnosis.\n\n">>

ContextHeader == <<"\n\nRelevant Information from Knowledge Base:\n">>

QuestionLabel == <<"User's Question: ">>

\* Faulty variant: the label carries the loop index itself, counting from 0.
DocumentLabel_from_zero(i) == <<"--- Document ", ToString(i), " ---\n">>

\* f"--- Document {i+1} ---\n" for the loop index i of enumerate (from 0).
DocumentLabel(i) == <<"--- Document ", ToString(i + 1), " ---\n">>

\* The body of the loop over enumerate(retrieved_docs), from index i on.
RECURSIVE context_docs(_, _)
context_docs(retrieved_docs, i) ==
    IF i >= Len(retrieved_docs) THEN <<>>
    ELSE DocumentLabel(i) \o retrieved_docs[i + 1].content \o Newline
         \o context_docs(retrieved_docs, i + 1)

context_str(retrieved_docs) ==
    ContextHeader \o context_docs(retrieved_docs, 0) \o Newline

\* Faulty variant: the augmented prompt is built whatever retrieval returned.
full_prompt_always_augmented(user_message, retrieved_docs) ==
    GroundedInstruction \o context_str(retrieved_docs)
    \o QuestionLabel \o user_message

\* The prompt process_message builds: the augmented one when documents were
\* retrieved, the general-knowledge one otherwise.
full_prompt(user_message, retrieved_docs) ==
    IF retrieved_docs # <<>>
    THEN GroundedInstruction \o context_str(retrieved_docs)
         \o QuestionLabel \o user_message
    ELSE UngroundedInstruction \o QuestionLabel \o user_message

(* ------------------------ language-model client ----------------------- *)

Apology == <<"Sorry, I am unable to generate a response at this time.">>

\* Replies the model can produce.
Replies == {<<"o", "k">>}

\* What the text-generation pipeline can do with a message list: return the
\* conversation with the model's message last, or raise.
PipelineOutcomes ==
    {[kind |-> "chat", reply |-> r] : r \in Replies} \cup {[kind |-> "error"]}

\* Faulty variant: the history is left out of the message list.
generate_response_without_history(prompt, history, outcome) ==
    [messages |-> <<[role |-> "user", content |-> prompt]>>,
     raised |-> FALSE,
     text |-> IF outcome.kind = "error" THEN Apology ELSE outcome.reply]

\* Faulty variant: an exception of the pipeline is not caught.
generate_response_uncaught(prompt, history, outcome) ==
    [messages |-> history \o <<[role |-> "user", content |-> prompt]>>,
     raised |-> outcome.kind = "error",
     text |-> IF outcome.kind = "error" THEN <<>> ELSE outcome.reply]

\* LLMInterface.generate_response: the message list handed to the pipeline
\* and the text returned.  Every exception of the pipeline is caught and
\* answered with the apology.
generate_response(prompt, history, outcome) ==
    [messages |-> history \o <<[role |-> "user", content |-> prompt]>>,
     raised |-> FALSE,
     text |-> IF outcome.kind = "error" THEN Apology ELSE outcome.reply]

(* --------------------------- dialogue core ---------------------------- *)

\* Faulty variant: only the assistant's turn is recorded.
update_chat_history_reply_only(history, user_message, response) ==
    Append(history, [role |-> "assistant", content |-> response])

\* The two appends that close process_message.
update_chat_history(history, user_message, response) ==
    Append(Append(history, [role |-> "user", content |-> user_message]),
           [role |-> "assistant", content |-> response])

\* Faulty variant: reset drops the last exchange only.
reset_conversation_last_pair(history) ==
    SubSeq(history, 1, Len(history) - 2)

\* Chatbot.reset_conversation
reset_conversation(history) == <<>>

(* ------------------------------- state -------------------------------- *)

VARIABLES
    pc,             \* where main() is: "start", "loop", "exited", "crashed", "setup_failed"
    chat_history,   \* Chatbot.chat_history
    collection,     \* the persistent ChromaDB collection
    next_id,        \* the identifiers uuid4 has not handed out yet start here
    kb_file,        \* the text of data/knowledge_base.txt
    kb_exists,      \* whether that file can be opened
    loads,          \* load_knowledge_base calls made so far
    setup,          \* what Chatbot.__init__ met
    last,           \* the last command of the loop and what it did
    turns,          \* process_message calls made so far
    answered,       \* calls since the last reset in which the model replied
    failed,         \* calls since the last reset in which the model failed
    dropped         \* the turns the last reset discarded

vars == <<pc, chat_history, collection, next_id, kb_file, kb_exists, loads,
          setup, last, turns, answered, failed, dropped>>

\* Knowledge files the chatbot is started on: two records, and an empty file.
TwoRecordFile ==
    <<"T", "\n", "x", "-", "-", "-", "U", "\n", "y", " ", "z">>

SampleFiles == {TwoRecordFile, <<>>}

\* What the user types other than exit and reset (an empty line included).
UserMessages == {<<"h", "i">>, <<>>}

NoCall == [op |-> "none"]
NoSetup == [done |-> FALSE]
NoReset == [done |-> FALSE]

\* The collection persists across runs: a run starts on an empty store or on
\* what an earlier run loaded.
Init ==
    /\ pc = "start"
    /\ chat_history = <<>>
    /\ kb_file \in SampleFiles
    /\ kb_exists \in BOOLEAN
    /\ collection \in {<<>>, load_knowledge_base(<<>>, TwoRecordFile, TRUE, 1)}
    /\ next_id = Len(collection) + 1
    /\ loads = 0
    /\ setup = NoSetup
    /\ last = NoCall
    /\ turns = 0
    /\ answered = 0
    /\ failed = 0
    /\ dropped = NoReset

(* --------------------------- main(): startup -------------------------- *)

\* Chatbot(model_name) inside the outer try of main(): the model client is
\* loaded, the retriever opens the store, the knowledge base is loaded.  An
\* exception of the constructor is printed by main() and the loop is never
\* entered; a missing knowledge file raises nothing.
Startup ==
    /\ pc = "start"
    /\ \E llm_ok \in BOOLEAN, db_ok \in BOOLEAN :
         /\ setup' = [done |-> TRUE, llm_ok |-> llm_ok, db_ok |-> db_ok,
                      kb_found |-> kb_exists]
         /\ IF llm_ok /\ db_ok
            THEN /\ collection' =
                        load_knowledge_base(collection, kb_file, kb_exists, next_id)
                 /\ next_id' = next_id + (IF kb_exists THEN Len(collection') ELSE 0)
                 /\ loads' = loads + 1
                 /\ pc' = "loop"
            ELSE /\ pc' = "setup_failed"
                 /\ UNCHANGED <<collection, next_id, loads>>
    /\ chat_history' = <<>>
    /\ UNCHANGED <<kb_file, kb_exists, last, turns, answered, failed, dropped>>

(* ---------------------------- main(): loop ---------------------------- *)

\* The user types exit.
Exit ==
    /\ pc = "loop"
    /\ pc' = "exited"
    /\ last' = [op |-> "exit"]
    /\ UNCHANGED <<chat_history, collection, next_id, kb_file, kb_exists, loads,
                   setup, turns, answered, failed, dropped>>

\* Ctrl+C at the prompt.
KeyboardInterrupt ==
    /\ pc = "loop"
    /\ pc' = "exited"
    /\ last' = [op |-> "interrupt"]
    /\ UNCHANGED <<chat_history, collection, next_id, kb_file, kb_exists, loads,
                   setup, turns, answered, failed, dropped>>

\* The user types reset.
Reset ==
    /\ pc = "loop"
    /\ chat_history' = reset_conversation(chat_history)
    /\ last' = [op |-> "reset", before |-> chat_history]
    /\ answered' = 0
    /\ failed' = 0
    /\ dropped' = [done |-> TRUE, turns |-> chat_history]
    /\ UNCHANGED <<pc, collection, next_id, kb_file, kb_exists, loads, setup, turns>>

\* The user types anything else: Chatbot.process_message(user_input).  An
\* exception leaving process_message is caught by the loop, which then ends.
ProcessMessage ==
    /\ pc = "loop"
    /\ turns < MaxTurns
    /\ \E user_message \in UserMessages,
          store \in StoreOutcomes(collection, NResults),
          outcome \in PipelineOutcomes :
         LET retrieved_docs == retrieve_info(store, MinSimilarity)
             prompt == full_prompt(user_message, retrieved_docs)
             gen == generate_response(prompt, chat_history, outcome)
         IN  /\ last' = [op |-> "process",
                         before |-> chat_history,
                         user_message |-> user_message,
                         store_failed |-> store.failed,
                         hits |-> Len(store.hits),
                         retrieved_docs |-> retrieved_docs,
                         prompt |-> prompt,
                         messages |-> gen.messages,
                         llm_failed |-> outcome.kind = "error",
                         raised |-> gen.raised,
                         response |-> IF gen.raised THEN <<>> ELSE gen.text]
             /\ IF gen.raised
                THEN /\ pc' = "crashed"
                     /\ UNCHANGED <<chat_history, answered, failed>>
                ELSE /\ pc' = "loop"
                     /\ chat_history' =
                            update_chat_history(chat_history, user_message, gen.text)
                     /\ answered' = answered + (IF outcome.kind = "error" THEN 0 ELSE 1)
                     /\ failed' = failed + (IF outcome.kind = "error" THEN 1 ELSE 0)
    /\ turns' = turns + 1
    /\ UNCHANGED <<collection, next_id, kb_file, kb_exists, loads, setup, dropped>>

Next == Startup \/ Exit \/ KeyboardInterrupt \/ Reset \/ ProcessMessage

Spec == Init /\ [][Next]_vars

(* ------------------- the loader run on its own ------------------------ *)

\* Every text over KBAlphabet of at most MaxFileLen characters.
KBFiles == UNION {[1..n -> KBAlphabet] : n \in 0..MaxFileLen}

\* The loader's own run (the test block of vector_db.py): a store that is
\* empty at first, a knowledge file that exists, and load after load.
InitKB ==
    /\ pc = "kb"
    /\ chat_history = <<>>
    /\ kb_file \in KBFiles
    /\ kb_exists = TRUE
    /\ collection = <<>>
    /\ next_id = 1
    /\ loads = 0
    /\ setup = NoSetup
    /\ last = NoCall
    /\ turns = 0
    /\ answered = 0
    /\ failed = 0
    /\ dropped = NoReset

\* test_db.load_knowledge_base()
LoadKnowledgeBase ==
    /\ pc = "kb"
    /\ loads < MaxLoads
    /\ collection' = load_knowledge_base(collection, kb_file, kb_exists, next_id)
    /\ next_id' = next_id + (IF kb_exists THEN Len(collection') ELSE 0)
    /\ loads' = loads + 1
    /\ last' = [op |-> "load", before |-> collection]
    /\ UNCHANGED <<pc, chat_history, kb_file, kb_exists, setup, turns, answered, failed,
                   dropped>>

NextKB == LoadKnowledgeBase

SpecKB == InitKB /\ [][NextKB]_vars

(* ======================= properties of the core ======================= *)

IsProcess == last.op = "process"

Roles(history) == [i \in 1..Len(history) |-> history[i].role]

\* C1: a process_message call in which the model fails leaves the history
\* as long as it was before the call: no user turn and no assistant turn
\* (in particular not the apology) is appended.
C1_FailureLeavesHistory ==
    (IsProcess /\ last.llm_failed) => Len(chat_history) = Len(last.before)

\* C2: from an empty history and with no reset in between, after N calls in
\* which the model replied (and none in which it failed) the history holds
\* exactly 2N turns.
C2_SuccessesPairUp ==
    failed = 0 => Len(chat_history) = 2 * answered

C2_Witness ==
    /\ failed = 0
    /\ answered = 2
    /\ IsProcess
    /\ Len(last.before) = 2

\* C3: right after reset_conversation the history is empty, whatever it held
\* before, and the loop goes on; reset is possible whenever the loop is
\* waiting for input.
C3_ResetEmptiesHistory ==
    /\ last.op = "reset" => (chat_history = <<>> /\ pc = "loop")
    /\ pc = "loop" => ENABLED Reset

C3_Witness ==
    /\ last.op = "reset"
    /\ Len(last.before) >= 4
    /\ \E i \in 1..Len(last.before) : last.before[i].content = Apology
    /\ \E i \in 1..Len(last.before) : last.before[i].content \in Replies

\* C4: between calls the history is a sequence of (user, assistant) pairs,
\* in that order, and every pair comes from a call in which the model gave
\* a real answer.
C4_HistoryIsAnsweredPairs ==
    /\ Len(chat_history) % 2 = 0
    /\ \A i \in 1..Len(chat_history) :
          chat_history[i].role = (IF i % 2 = 1 THEN "user" ELSE "assistant")
    /\ Len(chat_history) = 2 * answered

(* ------------------------------ prompts ------------------------------- *)

Contains(s, sub) == \E p \in 1..Len(s) : HasAt(s, p, sub)

EndsWith(s, sub) == HasAt(s, Len(s) - Len(sub) + 1, sub)

\* The first position from `from` on at which sub occurs in s; 0 when none.
FirstAt(s, sub, from) ==
    LET ps == {p \in from..Len(s) : HasAt(s, p, sub)}
    IN  IF ps = {} THEN 0 ELSE CHOOSE p \in ps : \A q \in ps : p <= q

\* Chunk n of docs, and every later one, stands in s under the label
\* "Document n", one after the other, from position `from` on.
RECURSIVE LabelledInOrder(_, _, _, _)
LabelledInOrder(s, docs, n, from) ==
    IF n > Len(docs) THEN TRUE
    ELSE LET block == <<"--- Document ", ToString(n), " ---\n">> \o docs[n].content
             p == FirstAt(s, block, from)
         IN  p > 0 /\ LabelledInOrder(s, docs, n + 1, p + Len(block))

\* The text of a prompt that is not the trailing user message.
Wrapper(prompt, user_message) ==
    SubSeq(prompt, 1, Len(prompt) - Len(user_message))

EvidenceMarks == {ContextHeader[1], "--- Document "}

\* C5: when retrieval returns at least one chunk, the prompt sent is the
\* grounded one: it carries the only-from-the-knowledge-base instruction,
\* every chunk's content verbatim under the labels Document 1..k in
\* retrieval order, and it ends with the user's question verbatim.
C5_GroundedPrompt ==
    (IsProcess /\ last.retrieved_docs # <<>>) =>
        /\ Contains(last.prompt, GroundedInstruction)
        /\ ~Contains(last.prompt, UngroundedInstruction)
        /\ LabelledInOrder(last.prompt, last.retrieved_docs, 1, 1)
        /\ EndsWith(last.prompt, QuestionLabel \o last.user_message)
        /\ last.messages[Len(last.messages)].content = last.prompt

C5_Witness ==
    /\ IsProcess
    /\ Len(last.retrieved_docs) = 2
    /\ last.retrieved_docs[1].content # last.retrieved_docs[2].content
    /\ last.user_message # <<>>

PromptMode(prompt) ==
    IF HasAt(prompt, 1, GroundedInstruction) THEN "grounded"
    ELSE IF HasAt(prompt, 1, UngroundedInstruction) THEN "ungrounded"
    ELSE "other"

\* C6: when retrieval returns nothing, the prompt sent is the ungrounded
\* one: the general-knowledge disclaimer instruction, then the user's
\* question verbatim, and no knowledge-base section; the prompt is grounded
\* exactly when retrieval returned something, and is never of a third kind.
C6_UngroundedPrompt ==
    IsProcess =>
        /\ PromptMode(last.prompt) \in {"grounded", "ungrounded"}
        /\ PromptMode(last.prompt) = "grounded" <=> last.retrieved_docs # <<>>
        /\ last.retrieved_docs = <<>> =>
              /\ ~Contains(last.prompt, GroundedInstruction)
              /\ EndsWith(last.prompt, QuestionLabel \o last.user_message)
              /\ \A i \in 1..Len(Wrapper(last.prompt, last.user_message)) :
                    last.prompt[i] \notin EvidenceMarks
        /\ last.messages[Len(last.messages)].content = last.prompt

C6_Witness ==
    /\ IsProcess
    /\ collection = <<>>
    /\ ~last.store_failed
    /\ last.retrieved_docs = <<>>
    /\ PromptMode(last.prompt) = "ungrounded"

\* C7: the message list given to the model is the history as it stood
\* before the turn, followed by exactly one user message whose content is
\* the composed prompt; that message is never the bare user text.
C7_MessagesAreHistoryThenPrompt ==
    IsProcess =>
        LET n == Len(last.before)
            composed == full_prompt(last.user_message, last.retrieved_docs)
        IN  /\ Len(last.messages) = n + 1
            /\ SubSeq(last.messages, 1, n) = last.before
            /\ last.messages[n + 1] = [role |-> "user", content |-> composed]
            /\ composed # last.user_message
            /\ PromptMode(composed) # "other"

C7_Witness ==
    /\ IsProcess
    /\ Len(last.before) = 4
    /\ last.user_message # <<>>

(* ------------------------------ failures ------------------------------ *)

C9_ConfigErrorAbortsInit ==
    (setup.done /\ (~setup.db_ok \/ ~setup.kb_found)) =>
        (pc = "setup_failed" /\ turns = 0)

(* ------------------------------- loader ------------------------------- *)

NonBlank(rec) == \E i \in 1..Len(rec) : rec[i] \notin Whitespace

\* A record with a body: some text, a line break after it, more text after.
HasBody(rec) ==
    \E p, n, q \in 1..Len(rec) :
        /\ p < n /\ n < q
        /\ rec[p] \notin Whitespace
        /\ rec[n] = "\n"
        /\ rec[q] \notin Whitespace

Trimmed(s) == s # <<>> /\ s[1] \notin Whitespace /\ s[Len(s)] \notin Whitespace

\* rec, trimmed, is ttl, then white space with a line break in it, then body;
\* ttl is one line.
TitleThenBody(rec, ttl, body) ==
    LET s == Strip(rec)
        a == Len(ttl)
        b == Len(s) - Len(body) + 1
    IN  /\ Trimmed(ttl) /\ Trimmed(body)
        /\ \A i \in 1..Len(ttl) : ttl[i] # "\n"
        /\ a < b
        /\ SubSeq(s, 1, a) = ttl
        /\ SubSeq(s, b, Len(s)) = body
        /\ \A i \in (a + 1)..(b - 1) : s[i] \in Whitespace
        /\ \E i \in (a + 1)..(b - 1) : s[i] = "\n"

Pairs(coll) == [i \in 1..Len(coll) |-> <<coll[i].metadata.title, coll[i].content>>]

Records == documents(kb_file)

\* C10 as stated: every non-blank record yields exactly one stored entry,
\* only blank records are skipped.
C10_EveryNonBlankRecordStored ==
    (pc = "kb" /\ loads >= 1) =>
        Len(collection) = Cardinality({i \in 1..Len(Records) : NonBlank(Records[i])})

\* C10 amended: the file is cut at each "---"; every record that has text
\* after its first line yields exactly one stored entry whose title is the
\* first line, trimmed, and whose content is the rest, trimmed; blank
\* records and records of a title line alone are skipped; loading the same
\* file again leaves the same (title, content) entries, none twice over.
C10_RecordsWithBodyStored ==
    (pc = "kb" /\ loads >= 1) =>
        LET kept == SelectSeq(Records, HasBody)
        IN  /\ Join(Records, Delimiter) = Strip(kb_file)
            /\ \A i \in 1..Len(Records) : ~Contains(Records[i], Delimiter)
            /\ Len(collection) = Len(kept)
            /\ \A i \in 1..Len(collection) :
                  TitleThenBody(kept[i], collection[i].metadata.title,
                                collection[i].content)
            /\ \A i, j \in 1..Len(collection) :
                  i # j => collection[i].id # collection[j].id
            /\ loads >= 2 => Pairs(collection) = Pairs(last.before)

C10_Witness ==
    /\ pc = "kb"
    /\ loads = 2
    /\ Len(collection) = 1
    /\ Len(Records) = 2
    /\ \A i \in 1..Len(Records) : NonBlank(Records[i])

(* ---------------------------- after a reset --------------------------- *)

\* C11: the first process_message call after reset_conversation hands the
\* model a message list that is the composed prompt alone, and every call
\* after the reset hands it only the turns recorded since the reset and the
\* composed prompt: nothing the reset discarded (user text, model reply,
\* apology) is in it.
C11_NothingBeforeResetIsSent ==
    (IsProcess /\ dropped.done) =>
        LET since == answered + failed - 1
            composed == full_prompt(last.user_message, last.retrieved_docs)
        IN  /\ Len(last.messages) = 2 * since + 1
            /\ last.messages[Len(last.messages)] =
                  [role |-> "user", content |-> composed]
            /\ since = 0 => last.messages = <<[role |-> "user", content |-> composed]>>
            /\ last.before = SubSeq(chat_history, 1, 2 * since)

C11_Witness ==
    /\ IsProcess
    /\ dropped.done
    /\ answered + failed = 1
    /\ Len(dropped.turns) >= 4
    /\ \E i \in 1..Len(dropped.turns) : dropped.turns[i].content = Apology
    /\ \E i \in 1..Len(dropped.turns) : dropped.turns[i].content \in Replies
    /\ last.user_message # <<>>

====
